---- MODULE Spec2Model ----
(***************************************************************************)
(* Order recording and stock accounting of the ERP prototype (src/db.py).  *)
(*                                                                         *)
(* The store is the SQLite database: one variable per table.  REAL         *)
(* quantities are measured in 1/Unit of a whole unit, so that non-integral *)
(* order quantities exist; money is measured in 1/Unit of a currency unit  *)
(* wherever it is multiplied by a quantity.  Date/time strings are modelled*)
(* by what the parsers of record_order read from them.  Columns that no    *)
(* operation reads back (names and units of sources, last_updated) are     *)
(* left out.                                                               *)
(***************************************************************************)
EXTENDS Integers, Sequences, FiniteSets, TLC

VARIABLES products, sources, product_sources, inventory, movements, sales,
          price_history, now, last, txn, lockShared, lockReserved, seen

tables == <<products, sources, product_sources, inventory, movements, sales,
            price_history>>
conc   == <<txn, lockShared, lockReserved, seen>>
vars   == <<products, sources, product_sources, inventory, movements, sales,
            price_history, now, last, txn, lockShared, lockReserved, seen>>

----------------------------------------------------------------------------
(* Bounds of the model *)

\* sub-units per whole unit of quantity (2: quantities in halves)
Unit == 2
\* cap on a stored quantity, in whole units (guards of the adjusting actions)
MaxQty == 3
\* cap on the number of sales rows
MaxSales == 2
\* clock ticks per second
TicksPerSec == 2
\* number of ticks the model lets the server clock advance
MaxTicks == 3
\* cap on the number of price_history rows
MaxHistory == 2

----------------------------------------------------------------------------
(* Values *)

None == [some |-> FALSE]
Some(v) == [some |-> TRUE, v |-> v]

\* unit price of the seeded product "5L water"
SeedPrice == 40

\* a calendar day of the model lasts two seconds
DayTicks == 2 * TicksPerSec
\* the clock after construction (one second and a fraction) and at its last
InitTime == TicksPerSec + 1
MaxTime == InitTime + MaxTicks

\* the least element of a non-empty set of integers
Least(S) == CHOOSE x \in S : \A y \in S : x <= y

\* the greatest element of a non-empty set of integers
Greatest(S) == CHOOSE x \in S : \A y \in S : x >= y

\* the rowid SQLite gives a row inserted without one into a table whose key
\* is INTEGER PRIMARY KEY without AUTOINCREMENT (db.py 39, 48, 88, 100): one
\* more than the greatest rowid in the table, 1 in an empty table
NextRowId(ids) == IF ids = {} THEN 1 ELSE Greatest(ids) + 1

\* f with key k bound to v (insert or update of one row)
Put(f, k, v) == [x \in (DOMAIN f) \cup {k} |-> IF x = k THEN v ELSE f[x]]

\* f without key k (delete of one row)
Drop(f, k) == [x \in (DOMAIN f) \ {k} |-> f[x]]

EmptyMap == [x \in {} |-> 0]

----------------------------------------------------------------------------
(* Date/time strings.  A string is modelled by what datetime.fromisoformat *)
(* and datetime.strptime(.., "%Y-%m-%d") make of it:                       *)
(*   [k |-> "none"]                      no string (None or "")            *)
(*   [k |-> "bad"]                       text that no parser accepts       *)
(*   [k |-> "iso", t, off]               an ISO date-time showing clock    *)
(*                                       value t (ticks), off = None for a *)
(*                                       string without offset, Some(o)    *)
(*                                       for one with UTC offset o (ticks) *)
(*   [k |-> "date", day, padded]         a bare calendar date; padded =    *)
(*                                       FALSE for "2025-1-5", which only  *)
(*                                       strptime accepts                  *)
(***************************************************************************)
NoStr == [k |-> "none"]
BadStr == [k |-> "bad"]
IsoStr(t, off) == [k |-> "iso", t |-> t, off |-> off]
DateStr(day, padded) == [k |-> "date", day |-> day, padded |-> padded]

\* a parsed datetime: clock value and whether it carries a tzinfo
Naive(t) == [t |-> t, aware |-> FALSE]
Aware(t) == [t |-> t, aware |-> TRUE]

\* datetime.fromisoformat(s): Some(datetime) or None when it raises.
\* An aware datetime is kept by its UTC instant.
FromIsoFormat(s) ==
    CASE s.k = "iso"  -> IF s.off.some THEN Some(Aware(s.t - s.off.v))
                                       ELSE Some(Naive(s.t))
      [] s.k = "date" -> IF s.padded THEN Some(Naive(s.day * DayTicks)) ELSE None
      [] OTHER        -> None

\* datetime.strptime(s, "%Y-%m-%d").date(): Some(day) or None when it raises
StrpDate(s) == IF s.k = "date" THEN Some(s.day) ELSE None

\* cd.astimezone(timezone.utc).replace(tzinfo=None) for an aware cd, cd itself
\* for a naive one (db.py 604-608)
ClientToUtc(cd) == Naive(cd.t)

\* db.py 597-613: od_dt from client_timestamp, None when absent or unparsable
ParseClientTimestamp(cts) ==
    IF cts.k = "none" THEN None
    ELSE LET cd == FromIsoFormat(cts)
         IN IF cd.some THEN Some(ClientToUtc(cd.v)) ELSE None

\* datetime.combine(d, now_utc.time()) (db.py 623-625)
CombineDate(day, clock) == Naive(day * DayTicks + (clock % DayTicks))

\* ParseOrderDate taking a string no parser accepts as no string
ParseOrderDateLenient(od, clock) ==
    IF od.k = "none" THEN [err |-> "none", dt |-> None]
    ELSE LET full == FromIsoFormat(od)
             d    == StrpDate(od)
         IN IF full.some THEN [err |-> "none", dt |-> full]
            ELSE IF d.some THEN [err |-> "none", dt |-> Some(CombineDate(d.v, clock))]
            ELSE [err |-> "none", dt |-> None]

\* db.py 615-628: od_dt from order_date; err = "InvalidOrderDate" when the
\* string is given and neither parser accepts it
ParseOrderDate(od, clock) ==
    IF od.k = "none" THEN [err |-> "none", dt |-> None]
    ELSE LET full == FromIsoFormat(od)
             d    == StrpDate(od)
         IN IF full.some THEN [err |-> "none", dt |-> full]
            ELSE IF d.some THEN [err |-> "none", dt |-> Some(CombineDate(d.v, clock))]
            ELSE [err |-> "InvalidOrderDate", dt |-> None]

\* od_dt.replace(microsecond=0) (db.py 634)
TruncSeconds(t) == t - (t % TicksPerSec)

\* ResolveTimestamp consulting order_date before client_timestamp
ResolveTimestampOrderDateFirst(cts, od, clock) ==
    LET o1 == ParseOrderDate(od, clock)
        c == ParseClientTimestamp(cts)
        o == IF o1.err # "none" \/ o1.dt.some THEN o1
             ELSE [err |-> "none", dt |-> c]
    IN IF o.err # "none" THEN [err |-> o.err, ts |-> 0]
       ELSE IF o.dt.some
            THEN IF o.dt.v.aware THEN [err |-> "TypeError", ts |-> 0]
                 ELSE IF o.dt.v.t > clock
                      THEN [err |-> "FutureOrderDate", ts |-> 0]
                      ELSE [err |-> "none", ts |-> TruncSeconds(o.dt.v.t)]
            ELSE [err |-> "none", ts |-> clock]

\* ResolveTimestamp refusing a client_timestamp that does not parse
ResolveTimestampStrictClient(cts, od, clock) ==
    LET c == ParseClientTimestamp(cts)
        o == IF c.some THEN [err |-> "none", dt |-> c]
                       ELSE ParseOrderDate(od, clock)
    IN IF cts.k # "none" /\ ~c.some THEN [err |-> "InvalidOrderDate", ts |-> 0]
       ELSE IF o.err # "none" THEN [err |-> o.err, ts |-> 0]
       ELSE IF o.dt.some
            THEN IF o.dt.v.aware THEN [err |-> "TypeError", ts |-> 0]
                 ELSE IF o.dt.v.t > clock
                      THEN [err |-> "FutureOrderDate", ts |-> 0]
                      ELSE [err |-> "none", ts |-> TruncSeconds(o.dt.v.t)]
            ELSE [err |-> "none", ts |-> clock]

\* db.py 597-636: the order's timestamp.  err is "none", "InvalidOrderDate",
\* "FutureOrderDate", or "TypeError" (an aware od_dt, which only order_date
\* can leave, compared with the naive utcnow()); ts is the stored clock value.
ResolveTimestamp(cts, od, clock) ==
    LET c == ParseClientTimestamp(cts)
        o == IF c.some THEN [err |-> "none", dt |-> c]
                       ELSE ParseOrderDate(od, clock)
    IN IF o.err # "none" THEN [err |-> o.err, ts |-> 0]
       ELSE IF o.dt.some
            THEN IF o.dt.v.aware THEN [err |-> "TypeError", ts |-> 0]
                 ELSE IF o.dt.v.t > clock
                      THEN [err |-> "FutureOrderDate", ts |-> 0]
                      ELSE [err |-> "none", ts |-> TruncSeconds(o.dt.v.t)]
            ELSE [err |-> "none", ts |-> clock]

----------------------------------------------------------------------------
(* The store *)

\* factor of the seeded mapping "5L water" -> Main Tank
SeedFactor == 5

WaterName == "5L water"
BottleName5 == "Empty 5L bottle"

\* f"Empty {int(factor)}L bottle" (db.py 682, 706); only the seeded size has
\* a product of that name
BottleNameFor(factor) == IF factor = SeedFactor THEN BottleName5 ELSE "Empty ?L bottle"

\* name LIKE '%Empty%' (db.py 688, 712)
LikeEmpty(name) == name \in {BottleName5, "Empty ?L bottle"}

DB == [products |-> products, sources |-> sources,
       product_sources |-> product_sources, inventory |-> inventory,
       movements |-> movements, sales |-> sales,
       price_history |-> price_history]

\* quantity of a row that may be missing: float(row[0]) if row is not None else 0.0
QtyOrZero(f, k) == IF k \in DOMAIN f THEN f[k] ELSE 0

Movement(kind, ref, delta, tag, pid, clock, user) ==
    [kind |-> kind, ref_id |-> ref, delta |-> delta,
     reason |-> [tag |-> tag, product_id |-> pid],
     timestamp |-> clock, user_id |-> user]

\* int(quantity) if float(quantity).is_integer() else math.ceil(quantity)
\* (db.py 592, 697), q in sub-units, the result in whole containers
BottlesFor(q) == IF q % Unit = 0 THEN q \div Unit ELSE (q \div Unit) + 1

----------------------------------------------------------------------------
(* record_order (db.py 568-779), step by step on the rows the open         *)
(* transaction has written so far.                                         *)
(* A request: [product_id, quantity, payment_method, order_date,           *)
(* created_by, use_bottle, bottles_used, bottle_price, client_timestamp];  *)
(* quantity in sub-units, bottles_used None or Some(n).                    *)
(***************************************************************************)

\* OrderTotal counting the containers from the quantity even when the
\* request names their number
OrderTotalFromQuantity(unit_price, req) ==
    LET base == unit_price * req.quantity
        count == BottlesFor(req.quantity)
    IN IF req.use_bottle /\ req.bottle_price > 0
       THEN base + req.bottle_price * count * Unit
       ELSE base

\* db.py 584-593: the total with the container surcharge, in 1/Unit of money
OrderTotal(unit_price, req) ==
    LET base == unit_price * req.quantity
        count == IF req.bottles_used.some THEN req.bottles_used.v
                 ELSE BottlesFor(req.quantity)
    IN IF req.use_bottle /\ req.bottle_price > 0
       THEN base + req.bottle_price * count * Unit
       ELSE base

\* db.py 639-641: the product's mapping row, None when there is none
ResolveStockPool(d, pid) ==
    IF pid \in DOMAIN d.product_sources THEN Some(d.product_sources[pid]) ELSE None

\* DrawSource charging the quantity without the factor
DrawSourceNoFactor(d, req, mapping, clock) ==
    LET sid == mapping.source_id
        required == req.quantity
        new_q == QtyOrZero(d.sources, sid) - required
    IN IF new_q < 0 THEN [err |-> "InsufficientStock", db |-> d]
       ELSE [err |-> "none",
             db |-> [d EXCEPT
                 !.sources = IF sid \in DOMAIN d.sources
                             THEN Put(d.sources, sid, new_q) ELSE d.sources,
                 !.movements = Append(d.movements,
                     Movement("source", sid, -required, "order",
                              req.product_id, clock, req.created_by))]]

\* DrawSource refusing the order that empties the source
DrawSourceStrict(d, req, mapping, clock) ==
    LET sid == mapping.source_id
        required == req.quantity * mapping.factor
        new_q == QtyOrZero(d.sources, sid) - required
    IN IF new_q <= 0 THEN [err |-> "InsufficientStock", db |-> d]
       ELSE [err |-> "none",
             db |-> [d EXCEPT
                 !.sources = IF sid \in DOMAIN d.sources
                             THEN Put(d.sources, sid, new_q) ELSE d.sources,
                 !.movements = Append(d.movements,
                     Movement("source", sid, -required, "order",
                              req.product_id, clock, req.created_by))]]

\* db.py 644-653: draw from the mapped source.  The UPDATE touches the row
\* only when it exists; the movement is inserted either way.
DrawSource(d, req, mapping, clock) ==
    LET sid == mapping.source_id
        required == req.quantity * mapping.factor
        new_q == QtyOrZero(d.sources, sid) - required
    IN IF new_q < 0 THEN [err |-> "InsufficientStock", db |-> d]
       ELSE [err |-> "none",
             db |-> [d EXCEPT
                 !.sources = IF sid \in DOMAIN d.sources
                             THEN Put(d.sources, sid, new_q) ELSE d.sources,
                 !.movements = Append(d.movements,
                     Movement("source", sid, -required, "order",
                              req.product_id, clock, req.created_by))]]

\* DrawInventory refusing the order that empties the inventory
DrawInventoryStrict(d, req, clock) ==
    LET pid == req.product_id
        new_q == QtyOrZero(d.inventory, pid) - req.quantity
    IN IF new_q <= 0 THEN [err |-> "InsufficientStock", db |-> d]
       ELSE [err |-> "none",
             db |-> [d EXCEPT
                 !.inventory = Put(d.inventory, pid, new_q),
                 !.movements = Append(d.movements,
                     Movement("inventory", pid, -req.quantity, "order",
                              pid, clock, req.created_by))]]

\* db.py 654-666: draw from the product's own inventory row, created if missing
DrawInventory(d, req, clock) ==
    LET pid == req.product_id
        new_q == QtyOrZero(d.inventory, pid) - req.quantity
    IN IF new_q < 0 THEN [err |-> "InsufficientStock", db |-> d]
       ELSE [err |-> "none",
             db |-> [d EXCEPT
                 !.inventory = Put(d.inventory, pid, new_q),
                 !.movements = Append(d.movements,
                     Movement("inventory", pid, -req.quantity, "order",
                              pid, clock, req.created_by))]]

\* DrawStock taking a mapped product from its own inventory row as well,
\* when that row holds enough
DrawStockBoth(d, req, mapping, clock) ==
    IF mapping.some
    THEN LET s == DrawSource(d, req, mapping.v, clock)
             i == DrawInventory(s.db, req, clock)
         IN IF s.err = "none" /\ i.err = "none" THEN i ELSE s
    ELSE DrawInventory(d, req, clock)

\* db.py 644-666: step 4
DrawStock(d, req, mapping, clock) ==
    IF mapping.some THEN DrawSource(d, req, mapping.v, clock)
    ELSE DrawInventory(d, req, clock)

\* db.py 679-693 and 703-717: the container product, None when no product
\* has the name derived from the factor nor a name like '%Empty%'
FindBottleProduct(d, mapping) ==
    LET exact == IF mapping.some
                 THEN {p \in DOMAIN d.products :
                         d.products[p].name = BottleNameFor(mapping.v.factor)}
                 ELSE {}
        like  == {p \in DOMAIN d.products : LikeEmpty(d.products[p].name)}
    IN IF exact # {} THEN Some(Least(exact))
       ELSE IF like # {} THEN Some(Least(like))
       ELSE None

\* db.py 669-697: the number of containers to consume, None when none
BottlesToConsume(d, req, mapping) ==
    IF req.bottles_used.some
    THEN IF req.bottles_used.v < 0
         THEN [err |-> "NegativeBottles", n |-> None]
         ELSE [err |-> "none", n |-> req.bottles_used]
    ELSE IF req.use_bottle /\ FindBottleProduct(d, mapping).some
         THEN [err |-> "none", n |-> Some(BottlesFor(req.quantity))]
         ELSE [err |-> "none", n |-> None]

\* ConsumeBottles refusing the order that takes the last container
ConsumeBottlesStrict(d, req, mapping, n, clock) ==
    LET bp == FindBottleProduct(d, mapping)
    IN IF ~(n.some /\ n.v > 0) \/ ~bp.some THEN [err |-> "none", db |-> d]
       ELSE LET new_bq == QtyOrZero(d.inventory, bp.v) - n.v * Unit
            IN IF new_bq <= 0 THEN [err |-> "InsufficientBottleStock", db |-> d]
               ELSE [err |-> "none",
                     db |-> [d EXCEPT
                         !.inventory = Put(d.inventory, bp.v, new_bq),
                         !.movements = Append(d.movements,
                             Movement("inventory", bp.v, -(n.v * Unit),
                                      "order_bottle", req.product_id, clock,
                                      req.created_by))]]

\* ConsumeBottles taking the containers without a movement
ConsumeBottlesNoMovement(d, req, mapping, n, clock) ==
    LET bp == FindBottleProduct(d, mapping)
    IN IF ~(n.some /\ n.v > 0) \/ ~bp.some THEN [err |-> "none", db |-> d]
       ELSE LET new_bq == QtyOrZero(d.inventory, bp.v) - n.v * Unit
            IN IF new_bq < 0 THEN [err |-> "InsufficientBottleStock", db |-> d]
               ELSE [err |-> "none",
                     db |-> [d EXCEPT
                         !.inventory = Put(d.inventory, bp.v, new_bq)]]

\* db.py 699-730: step 5, the container decrement and its movement
ConsumeBottles(d, req, mapping, n, clock) ==
    LET bp == FindBottleProduct(d, mapping)
    IN IF ~(n.some /\ n.v > 0) \/ ~bp.some THEN [err |-> "none", db |-> d]
       ELSE LET new_bq == QtyOrZero(d.inventory, bp.v) - n.v * Unit
            IN IF new_bq < 0 THEN [err |-> "InsufficientBottleStock", db |-> d]
               ELSE [err |-> "none",
                     db |-> [d EXCEPT
                         !.inventory = Put(d.inventory, bp.v, new_bq),
                         !.movements = Append(d.movements,
                             Movement("inventory", bp.v, -(n.v * Unit),
                                      "order_bottle", req.product_id, clock,
                                      req.created_by))]]

\* db.py 732-753: the sales row
SaleRow(d, req, unit_price, total, ts, n) ==
    [id |-> Len(d.sales) + 1, product_id |-> req.product_id,
     quantity |-> req.quantity, unit_price |-> unit_price, total |-> total,
     payment_method |-> req.payment_method, timestamp |-> ts,
     created_by |-> req.created_by,
     bottles_used |-> IF n.some THEN n.v ELSE 0,
     bottle_price |-> IF req.use_bottle THEN req.bottle_price ELSE 0,
     client_timestamp |-> req.client_timestamp]

\* db.py 574-753: the transaction body.  db holds the rows as written when
\* the body ended, by the INSERT of the sales row or by the exception err.
RecordOrderTxn(d, req, clock) ==
    IF req.product_id \notin DOMAIN d.products
    THEN [err |-> "ProductNotFound", db |-> d]
    ELSE
    LET unit_price == d.products[req.product_id].unit_price
        total == OrderTotal(unit_price, req)
        t == ResolveTimestamp(req.client_timestamp, req.order_date, clock)
        mapping == ResolveStockPool(d, req.product_id)
        s4 == DrawStock(d, req, mapping, clock)
        b == BottlesToConsume(s4.db, req, mapping)
        s5 == ConsumeBottles(s4.db, req, mapping, b.n, clock)
    IN IF t.err # "none" THEN [err |-> t.err, db |-> d]
       ELSE IF s4.err # "none" THEN [err |-> s4.err, db |-> s4.db]
       ELSE IF b.err # "none" THEN [err |-> b.err, db |-> s4.db]
       ELSE IF s5.err # "none" THEN [err |-> s5.err, db |-> s5.db]
       ELSE [err |-> "none",
             db |-> [s5.db EXCEPT !.sales =
                        Append(@, SaleRow(s5.db, req, unit_price, total, t.ts, b.n))]]

\* conn.commit() (db.py 755): the rows written become the store
Commit(before, written) == written

\* a rollback that keeps what the transaction wrote
RollbackKeeps(before, written) == written

\* conn.rollback() (db.py 771-776): the store as it was at BEGIN
Rollback(before, written) == before

\* RecordOrder looking the product up before it checks the quantity
RecordOrderLookupFirst(d, req, clock) ==
    IF req.product_id \notin DOMAIN d.products
    THEN [err |-> "ProductNotFound", db |-> d]
    ELSE IF req.quantity <= 0 THEN [err |-> "InvalidQuantity", db |-> d]
    ELSE LET r == RecordOrderTxn(d, req, clock)
         IN IF r.err = "none" THEN [err |-> "none", db |-> Commit(d, r.db)]
            ELSE [err |-> r.err, db |-> Rollback(d, r.db)]

\* db.py 568-779: the whole call; db is the store it leaves
RecordOrder(d, req, clock) ==
    IF req.quantity <= 0 THEN [err |-> "InvalidQuantity", db |-> d]
    ELSE LET r == RecordOrderTxn(d, req, clock)
         IN IF r.err = "none" THEN [err |-> "none", db |-> Commit(d, r.db)]
            ELSE [err |-> r.err, db |-> Rollback(d, r.db)]

----------------------------------------------------------------------------
(* Stock Ledger: adjust_source_quantity (db.py 370-389) and                *)
(* adjust_inventory (db.py 478-507) on one table of quantities             *)
(***************************************************************************)
\* adjust_source_quantity without the check of the new quantity
AdjustSourceQuantityUnchecked(rows, source_id, delta) ==
    [err |-> "none", rows |-> Put(rows, source_id, QtyOrZero(rows, source_id) + delta),
     new_q |-> QtyOrZero(rows, source_id) + delta]

\* db.py 370-389
AdjustSourceQuantity(rows, source_id, delta) ==
    IF source_id \notin DOMAIN rows
    THEN IF delta < 0 THEN [err |-> "InsufficientStock", rows |-> rows, new_q |-> 0]
         ELSE [err |-> "none", rows |-> Put(rows, source_id, delta), new_q |-> delta]
    ELSE LET new_q == rows[source_id] + delta
         IN IF new_q < 0 THEN [err |-> "InsufficientStock", rows |-> rows, new_q |-> 0]
            ELSE [err |-> "none", rows |-> Put(rows, source_id, new_q), new_q |-> new_q]

\* adjust_inventory storing 0 where the new quantity would be negative
AdjustInventoryClamping(rows, product_id, delta) ==
    LET new_q == QtyOrZero(rows, product_id) + delta
    IN IF new_q < 0 THEN [err |-> "none", rows |-> Put(rows, product_id, 0), new_q |-> 0]
       ELSE [err |-> "none", rows |-> Put(rows, product_id, new_q), new_q |-> new_q]

\* db.py 478-507
AdjustInventory(rows, product_id, delta) ==
    IF product_id \notin DOMAIN rows
    THEN IF delta < 0 THEN [err |-> "InsufficientStock", rows |-> rows, new_q |-> 0]
         ELSE [err |-> "none", rows |-> Put(rows, product_id, delta), new_q |-> delta]
    ELSE LET new_q == rows[product_id] + delta
         IN IF new_q < 0 THEN [err |-> "InsufficientStock", rows |-> rows, new_q |-> 0]
            ELSE [err |-> "none", rows |-> Put(rows, product_id, new_q), new_q |-> new_q]

\* set_product_source (db.py 393-405): insert or update the mapping row
SetMapping(ps, pid, sid, factor) == Put(ps, pid, [source_id |-> sid, factor |-> factor])

----------------------------------------------------------------------------
(* Administration of products, sources and inventory *)

\* a price_history row (db.py 893, 916)
PriceChange(pid, old, new, reason, clock) ==
    [product_id |-> pid, old_price |-> old, new_price |-> new,
     reason |-> reason, timestamp |-> clock]

\* add_product (db.py 884-900): the new row takes the next rowid and its
\* first price is written to price_history
AddProduct(d, name, unit_price, clock) ==
    LET pid == NextRowId(DOMAIN d.products)
    IN [d EXCEPT
          !.products = Put(d.products, pid, [name |-> name, unit_price |-> unit_price]),
          !.price_history = Append(d.price_history,
               PriceChange(pid, None, unit_price, "initial", clock))]

\* update_product that also rewrites the price of the product's sales rows
UpdateProductRepricing(d, pid, name, unit_price, clock) ==
    [d EXCEPT
       !.products = IF pid \in DOMAIN d.products
                    THEN Put(d.products, pid, [name |-> name, unit_price |-> unit_price])
                    ELSE d.products,
       !.sales = [i \in 1..Len(d.sales) |->
                    IF d.sales[i].product_id = pid
                    THEN [d.sales[i] EXCEPT !.unit_price = unit_price,
                                            !.total = unit_price * d.sales[i].quantity]
                    ELSE d.sales[i]],
       !.price_history = Append(d.price_history,
            PriceChange(pid, IF pid \in DOMAIN d.products
                             THEN Some(d.products[pid].unit_price) ELSE None,
                        unit_price, "update", clock))]

\* update_product (db.py 903-923): the UPDATE touches the product's row when
\* there is one; the price_history row is inserted either way
UpdateProduct(d, pid, name, unit_price, clock) ==
    [d EXCEPT
       !.products = IF pid \in DOMAIN d.products
                    THEN Put(d.products, pid, [name |-> name, unit_price |-> unit_price])
                    ELSE d.products,
       !.price_history = Append(d.price_history,
            PriceChange(pid, IF pid \in DOMAIN d.products
                             THEN Some(d.products[pid].unit_price) ELSE None,
                        unit_price, "update", clock))]

\* set_inventory (db.py 447-465): insert or update the row, whatever quantity
SetInventory(rows, product_id, quantity) == Put(rows, product_id, quantity)

\* update_source (db.py 335-357) with a quantity (Some) or without (None):
\* the UPDATE touches the row when there is one
UpdateSource(rows, source_id, quantity) ==
    IF quantity.some /\ source_id \in DOMAIN rows
    THEN Put(rows, source_id, quantity.v) ELSE rows

\* add_source (db.py 322-332): a new row with the quantity given
AddSource(rows, quantity) == Put(rows, NextRowId(DOMAIN rows), quantity)

\* delete_source (db.py 360-367), delete_inventory (db.py 468-475),
\* delete_product (db.py 926-933)
DeleteSource(rows, source_id) == Drop(rows, source_id)
DeleteInventory(rows, product_id) == Drop(rows, product_id)
DeleteProduct(rows, product_id) == Drop(rows, product_id)

\* LIMIT of list_movements when the caller gives none or 0 (db.py 855)
DefaultLimit == 100

\* the n newest rows of log among the ids of S, newest first
RECURSIVE TakeNewest(_, _, _)
TakeNewest(log, S, n) ==
    IF n = 0 \/ S = {} THEN <<>>
    ELSE LET m == CHOOSE x \in S : \A y \in S : y <= x
         IN <<[id |-> m, row |-> log[m]]>> \o TakeNewest(log, S \ {m}, n - 1)

\* the n oldest rows of log among the ids of S, oldest first
RECURSIVE TakeOldest(_, _, _)
TakeOldest(log, S, n) ==
    IF n = 0 \/ S = {} THEN <<>>
    ELSE LET m == CHOOSE x \in S : \A y \in S : x <= y
         IN <<[id |-> m, row |-> log[m]]>> \o TakeOldest(log, S \ {m}, n - 1)

\* the ids that pass the filter of list_movements (db.py 845-853); kind and
\* ref_id are None or Some(value)
MovementFilter(log, kind, ref_id) ==
    {i \in 1..Len(log) : /\ kind.some => log[i].kind = kind.v
                         /\ ref_id.some => log[i].ref_id = ref_id.v}

\* list_movements ordering by id ASC
ListMovementsOldestFirst(log, limit, kind, ref_id) ==
    LET S == MovementFilter(log, kind, ref_id)
        lim == IF limit = 0 THEN DefaultLimit ELSE limit
    IN TakeOldest(log, S, IF lim < 0 \/ lim > Cardinality(S) THEN Cardinality(S) ELSE lim)

\* list_movements (db.py 841-859): ORDER BY id DESC LIMIT int(limit or 100);
\* a row's id is its place in the log, a negative LIMIT is no limit
ListMovements(log, limit, kind, ref_id) ==
    LET S == MovementFilter(log, kind, ref_id)
        lim == IF limit = 0 THEN DefaultLimit ELSE limit
    IN TakeNewest(log, S, IF lim < 0 \/ lim > Cardinality(S) THEN Cardinality(S) ELSE lim)

----------------------------------------------------------------------------
(* Inputs *)

ProductIds == {1, 2}
\* an id no product has
GhostProduct == Cardinality(ProductIds) + 1
SourceIds == {1, 2}

InitTank == (2 * SeedFactor + 2) * Unit
InitBottles == 2 * Unit
SourceCap == (MaxQty * SeedFactor) * Unit
InventoryCap == MaxQty * Unit

\* order quantities: none, one unit, one unit and a fraction
Quantities == {0, Unit, Unit + 1}
BottlesUsed == {None, Some(-1), Some(2)}
BottlePrices == {0, 10}
Factors == {-1, 0, SeedFactor}

BaseReq == [product_id |-> 1, quantity |-> Unit, payment_method |-> "Cash",
            order_date |-> NoStr, created_by |-> 1, use_bottle |-> FALSE,
            bottles_used |-> None, bottle_price |-> 0, client_timestamp |-> NoStr]

Req(p, q, ub, bu, bp, cts, od) ==
    [BaseReq EXCEPT !.product_id = p, !.quantity = q, !.use_bottle = ub,
                    !.bottles_used = bu, !.bottle_price = bp,
                    !.client_timestamp = cts, !.order_date = od]

\* date inputs that always fail: an unparsable order_date, a client timestamp
\* later than the clock ever shows, an order_date with an offset
FailingDates == { <<NoStr, BadStr>>, <<IsoStr(MaxTime + 1, None), NoStr>>,
                  <<NoStr, IsoStr(0, Some(0))>> }

\* orders without container and without dates
PlainRequests ==
    { Req(p, q, FALSE, None, 0, NoStr, NoStr) :
        p \in ProductIds \cup {GhostProduct}, q \in Quantities }

\* orders with every container input, and the failing dates
BottleRequests ==
    { Req(p, q, ub, bu, bp, NoStr, NoStr) :
        p \in ProductIds \cup {GhostProduct}, q \in Quantities,
        ub \in BOOLEAN, bu \in BottlesUsed, bp \in BottlePrices }
    \cup { Req(1, Unit, FALSE, None, 0, dd[1], dd[2]) : dd \in FailingDates }

\* one unit of each product, without container and dates
LedgerRequests ==
    { Req(p, Unit, FALSE, None, 0, NoStr, NoStr) : p \in ProductIds }

\* client timestamps: absent, unparsable, naive and with an offset, in the
\* past, at the first clock value and after the last one
ClientStamps ==
    {NoStr, BadStr}
    \cup {IsoStr(t, None) : t \in {1, InitTime, MaxTime + 1}}
    \cup {IsoStr(t, Some(TicksPerSec)) : t \in {InitTime, MaxTime + TicksPerSec + 1}}

\* order dates: absent, unparsable, ISO date-times without and with offset,
\* bare dates of day 0 and of the day after the last clock value
OrderDates ==
    {NoStr, BadStr}
    \cup {IsoStr(t, off) : t \in {1, MaxTime + 1}, off \in {None, Some(0)}}
    \cup {DateStr(d, pad) : d \in {0, (MaxTime \div DayTicks) + 1}, pad \in BOOLEAN}

\* orders with every date input; one of them empties the tank, and a few
\* carry a container input that fails
DateRequests ==
    { Req(1, 2 * Unit, FALSE, None, 0, cts, od) :
        cts \in ClientStamps, od \in OrderDates }
    \cup { Req(1, 2 * Unit, TRUE, Some(-1), 10, cts, NoStr) : cts \in ClientStamps }

----------------------------------------------------------------------------
(* State and actions *)

Txns == {1, 2}

\* init_db (db.py 32-300) seeds "5L water" at 40, mapped to the Main Tank
\* with factor 5, and the product "Empty 5L bottle" with an inventory row;
\* the quantities are those of a store that has traded for a while.
Init ==
    /\ products = (1 :> [name |-> WaterName, unit_price |-> SeedPrice]
                @@ 2 :> [name |-> BottleName5, unit_price |-> 0])
    /\ sources = (1 :> InitTank)
    /\ product_sources = (1 :> [source_id |-> 1, factor |-> SeedFactor])
    /\ inventory = (2 :> InitBottles)
    /\ movements = <<>>
    /\ sales = <<>>
    /\ price_history = <<>>
    /\ now = InitTime
    /\ last = [op |-> "init", err |-> "none"]
    /\ txn = [t \in Txns |-> [pc |-> "idle", err |-> "none", committed |-> FALSE,
                              req |-> BaseReq, snap |-> EmptyMap, work |-> EmptyMap]]
    /\ lockShared = {}
    /\ lockReserved = {}
    /\ seen = [sources |-> (1 :> InitTank), inventory |-> (2 :> InitBottles),
               movements |-> <<>>, sales |-> <<>>]

SetDB(d) ==
    /\ products' = d.products
    /\ sources' = d.sources
    /\ product_sources' = d.product_sources
    /\ inventory' = d.inventory
    /\ movements' = d.movements
    /\ sales' = d.sales
    /\ price_history' = d.price_history

WithinCaps(d) ==
    /\ \A s \in DOMAIN d.sources : d.sources[s] <= SourceCap
    /\ \A p \in DOMAIN d.inventory : d.inventory[p] <= InventoryCap
    /\ Len(d.sales) <= MaxSales

\* a call of record_order with a request of Reqs
DoRecordOrder(Reqs) ==
    \E req \in Reqs :
        LET r == RecordOrder(DB, req, now)
        IN /\ WithinCaps(r.db)
           /\ SetDB(r.db)
           /\ last' = [op |-> "record_order", err |-> r.err, req |-> req]
           /\ UNCHANGED <<now, conc>>

DoAdjustInventory ==
    \E p \in ProductIds, delta \in {-Unit, Unit} :
        LET r == AdjustInventory(inventory, p, delta)
        IN /\ \A k \in DOMAIN r.rows : r.rows[k] <= InventoryCap
           /\ inventory' = r.rows
           /\ last' = [op |-> "adjust_inventory", err |-> r.err, id |-> p,
                       delta |-> delta, ret |-> r.new_q]
           /\ UNCHANGED <<products, sources, product_sources, movements, sales,
                          price_history, now, conc>>

DoAdjustSource(Sids) ==
    \E s \in Sids, delta \in {-SeedFactor * Unit, SeedFactor * Unit} :
        LET r == AdjustSourceQuantity(sources, s, delta)
        IN /\ \A k \in DOMAIN r.rows : r.rows[k] <= SourceCap
           /\ sources' = r.rows
           /\ last' = [op |-> "adjust_source_quantity", err |-> r.err, id |-> s,
                       delta |-> delta, ret |-> r.new_q]
           /\ UNCHANGED <<products, product_sources, inventory, movements, sales,
                          price_history, now, conc>>

DoSetProductSource(Sids) ==
    \E sid \in Sids, f \in Factors :
        /\ product_sources' = SetMapping(product_sources, 1, sid, f)
        /\ last' = [op |-> "set_product_source", err |-> "none"]
        /\ UNCHANGED <<products, sources, inventory, movements, sales,
                       price_history, now, conc>>

\* DELETE FROM product_sources of api_delete_product_source (app.py 433-445)
DoDeleteProductSource ==
    /\ product_sources' = Drop(product_sources, 1)
    /\ last' = [op |-> "delete_product_source",
                err |-> IF 1 \in DOMAIN product_sources THEN "none" ELSE "NotFound"]
    /\ UNCHANGED <<products, sources, inventory, movements, sales,
                   price_history, now, conc>>

\* the server clock advances
Tick ==
    /\ now < MaxTime
    /\ now' = now + 1
    /\ last' = [op |-> "tick", err |-> "none"]
    /\ UNCHANGED <<tables, conc>>

\* orders of every product and quantity against every mapping
Next ==
    \/ DoRecordOrder(PlainRequests)
    \/ DoSetProductSource(SourceIds)
    \/ DoDeleteProductSource

Spec == Init /\ [][Next]_vars

\* orders with containers against the seeded store
NextBottle == DoRecordOrder(BottleRequests)

SpecBottle == Init /\ [][NextBottle]_vars

\* orders among adjustments of both ledgers and changes of the mapping
NextLedger ==
    \/ DoRecordOrder(LedgerRequests)
    \/ DoAdjustInventory
    \/ DoAdjustSource({1})
    \/ DoSetProductSource({1})

SpecLedger == Init /\ [][NextLedger]_vars

\* orders with dates while the clock advances
NextDates ==
    \/ DoRecordOrder(DateRequests)
    \/ Tick

SpecDates == Init /\ [][NextDates]_vars

\* orders of no, a negative and a valid quantity, of products there are and
\* of one there is not, with and without date inputs that fail
QuantityRequests ==
    { Req(p, q, FALSE, None, 0, dd[1], dd[2]) :
        p \in ProductIds \cup {GhostProduct}, q \in {-Unit, 0, Unit},
        dd \in FailingDates \cup {<<NoStr, NoStr>>} }

NextQuantity ==
    \/ DoRecordOrder(QuantityRequests)
    \/ DoSetProductSource({1})

SpecQuantity == Init /\ [][NextQuantity]_vars

\* update_product with a price of Prices, under the product's name
Prices == {SeedPrice + 10}

DoUpdateProduct(Pids) ==
    \E pid \in Pids, price \in Prices :
        /\ Len(price_history) < MaxHistory
        /\ SetDB(UpdateProduct(DB, pid,
                               IF pid \in DOMAIN products THEN products[pid].name
                               ELSE WaterName,
                               price, now))
        /\ last' = [op |-> "update_product",
                    err |-> IF pid \in DOMAIN products THEN "none" ELSE "NotFound",
                    id |-> pid]
        /\ UNCHANGED <<now, conc>>

DoSetInventory(Pids, Qs) ==
    \E p \in Pids, q \in Qs :
        /\ inventory' = SetInventory(inventory, p, q)
        /\ last' = [op |-> "set_inventory", err |-> "none", id |-> p]
        /\ UNCHANGED <<products, sources, product_sources, movements, sales,
                       price_history, now, conc>>

DoUpdateSource(Sids, Qs) ==
    \E s \in Sids, q \in Qs :
        /\ sources' = UpdateSource(sources, s, q)
        /\ last' = [op |-> "update_source", err |-> "none", id |-> s]
        /\ UNCHANGED <<products, product_sources, inventory, movements, sales,
                       price_history, now, conc>>

DoDeleteProduct(Pids) ==
    \E p \in Pids :
        /\ products' = DeleteProduct(products, p)
        /\ last' = [op |-> "delete_product",
                    err |-> IF p \in DOMAIN products THEN "none" ELSE "NotFound"]
        /\ UNCHANGED <<sources, product_sources, inventory, movements, sales,
                       price_history, now, conc>>

\* one unit of water, with and without a container
AdminRequests ==
    { Req(1, Unit, ub, None, 0, NoStr, NoStr) : ub \in BOOLEAN }

\* orders among price changes and edits of the stock
NextAdmin ==
    \/ DoRecordOrder(AdminRequests)
    \/ DoUpdateProduct({1, GhostProduct})
    \/ DoSetInventory({2}, {0, InitBottles})
    \/ DoUpdateSource({1}, {None, Some(0), Some(InitTank)})
    \/ DoAdjustSource({1})
    \/ DoDeleteProduct({2})

SpecAdmin == Init /\ [][NextAdmin]_vars

DoDeleteSource(Sids) ==
    \E s \in Sids :
        /\ sources' = DeleteSource(sources, s)
        /\ last' = [op |-> "delete_source",
                    err |-> IF s \in DOMAIN sources THEN "none" ELSE "NotFound"]
        /\ UNCHANGED <<products, product_sources, inventory, movements, sales,
                       price_history, now, conc>>

DoDeleteInventory(Pids) ==
    \E p \in Pids :
        /\ inventory' = DeleteInventory(inventory, p)
        /\ last' = [op |-> "delete_inventory",
                    err |-> IF p \in DOMAIN inventory THEN "none" ELSE "NotFound"]
        /\ UNCHANGED <<products, sources, product_sources, movements, sales,
                       price_history, now, conc>>

\* adjustments of records there are and of records there are not
NextAdjust ==
    \/ DoAdjustInventory
    \/ DoAdjustSource(SourceIds)
    \/ DoDeleteSource(SourceIds)
    \/ DoDeleteInventory(ProductIds)

SpecAdjust == Init /\ [][NextAdjust]_vars

\* a call of list_movements; seen holds the call and what it returned
Limits == {0, 1, 2}
Kinds == {None, Some("source"), Some("inventory")}
RefIds == {None, Some(1), Some(2)}

DoListMovements ==
    \E limit \in Limits, kind \in Kinds, ref_id \in RefIds :
        /\ seen' = [op |-> "list_movements", limit |-> limit, kind |-> kind,
                    ref_id |-> ref_id,
                    rows |-> ListMovements(movements, limit, kind, ref_id)]
        /\ last' = [op |-> "list_movements", err |-> "none"]
        /\ UNCHANGED <<tables, now, txn, lockShared, lockReserved>>

\* orders that log one and two movements, edits that log none, and readers
NextMovements ==
    \/ DoRecordOrder(AdminRequests)
    \/ DoAdjustSource({1})
    \/ DoSetInventory({2}, {InitBottles})
    \/ DoListMovements

SpecMovements == Init /\ [][NextMovements]_vars

\* the quantities the handlers of /api/stock and /api/sources pass on:
\* whatever float() accepts (app.py 321, 335, 367, 388)
StockQuantities == {-Unit, 0, Unit}

\* api_create_source (app.py 358-373): add_source with the quantity posted
DoAddSource(Qs) ==
    \E q \in Qs :
        /\ NextRowId(DOMAIN sources) \in SourceIds
        /\ sources' = AddSource(sources, q)
        /\ last' = [op |-> "add_source", err |-> "none",
                    id |-> NextRowId(DOMAIN sources)]
        /\ UNCHANGED <<products, product_sources, inventory, movements, sales,
                       price_history, now, conc>>

\* orders among the stock and source edits of an administrator
NextStock ==
    \/ DoRecordOrder(LedgerRequests)
    \/ DoSetInventory(ProductIds, StockQuantities)
    \/ DoAddSource(StockQuantities)
    \/ DoUpdateSource(SourceIds, {None} \cup {Some(q) : q \in StockQuantities})

SpecStock == Init /\ [][NextStock]_vars

\* orders of products that have a mapping, an inventory row, both or
\* neither, beside a second source
NextFrame ==
    \/ DoRecordOrder(LedgerRequests)
    \/ DoSetProductSource(SourceIds)
    \/ DoDeleteProductSource
    \/ DoAddSource({InitTank})
    \/ DoSetInventory({1}, {Unit})

SpecFrame == Init /\ [][NextFrame]_vars

\* add_product; last.id is the id of the row returned
DoAddProduct ==
    \E price \in Prices :
        /\ Len(price_history) < MaxHistory
        /\ NextRowId(DOMAIN products) \in ProductIds \cup {GhostProduct}
        /\ SetDB(AddProduct(DB, WaterName, price, now))
        /\ last' = [op |-> "add_product", err |-> "none",
                    id |-> NextRowId(DOMAIN products)]
        /\ UNCHANGED <<now, conc>>

\* products come and go among orders and edits of stock and mapping
NextCatalog ==
    \/ DoAddProduct
    \/ DoDeleteProduct(ProductIds)
    \/ DoSetInventory(ProductIds, {Unit})
    \/ DoSetProductSource({1})
    \/ DoRecordOrder(LedgerRequests)

SpecCatalog == Init /\ [][NextCatalog]_vars

\* one unit of water with every container input
ContainerRequests ==
    { Req(1, Unit, ub, bu, bp, NoStr, NoStr) :
        ub \in BOOLEAN, bu \in BottlesUsed, bp \in BottlePrices }

\* orders with containers before and after the container product is deleted
NextNoBottle ==
    \/ DoRecordOrder(ContainerRequests)
    \/ DoDeleteProduct({2})

SpecNoBottle == Init /\ [][NextNoBottle]_vars

\* orders of water and of the container product itself, with and without
\* containers
TallyRequests ==
    { Req(p, Unit, c[1], c[2], 0, NoStr, NoStr) :
        p \in ProductIds,
        c \in {<<FALSE, None>>, <<TRUE, None>>, <<FALSE, Some(2)>>} }

\* orders only, under every mapping
NextTally ==
    \/ DoRecordOrder(TallyRequests)
    \/ DoSetProductSource(SourceIds)

SpecTally == Init /\ [][NextTally]_vars

\* the id of the first product row with the name, None when there is none
\* (SELECT id FROM products WHERE name = ?, db.py 73, 250, 268, 287)
ProductNamed(rows, name) ==
    LET ids == {p \in DOMAIN rows : rows[p].name = name}
    IN IF ids = {} THEN None ELSE Some(Least(ids))

\* a product row of the name is there: inserted when missing
EnsureProduct(rows, name, unit_price) ==
    IF ProductNamed(rows, name).some THEN rows
    ELSE Put(rows, NextRowId(DOMAIN rows), [name |-> name, unit_price |-> unit_price])

\* init_db on the store d (db.py 72-75 and 238-300), for the seed the model
\* keeps: the water product, the tank (the row named "Main Tank" is the
\* model's source 1), one container product with its template count, and the
\* water product's mapping.  A product, tank, inventory row or mapping that
\* is missing is inserted; an inventory row and a mapping that are there are
\* overwritten with the template's count and factor.
InitDb(d) ==
    LET main_tank_id == IF 1 \in DOMAIN d.sources THEN 1
                        ELSE NextRowId(DOMAIN d.sources)
        srcs == IF 1 \in DOMAIN d.sources THEN d.sources
                ELSE Put(d.sources, main_tank_id, InitTank)
        prods == EnsureProduct(EnsureProduct(d.products, WaterName, SeedPrice),
                               BottleName5, 0)
        bottle == ProductNamed(prods, BottleName5).v
        water == ProductNamed(prods, WaterName).v
    IN [d EXCEPT
          !.sources = srcs,
          !.products = prods,
          !.inventory = Put(d.inventory, bottle, InitBottles),
          !.product_sources = SetMapping(d.product_sources, water, main_tank_id,
                                         SeedFactor)]

\* the application starts again (app.py 26-27, 605)
DoInitDb ==
    /\ SetDB(InitDb(DB))
    /\ last' = [op |-> "init_db", err |-> "none"]
    /\ UNCHANGED <<now, conc>>

\* orders and changes of the mapping between starts of the application
NextRestart ==
    \/ DoRecordOrder(AdminRequests)
    \/ DoSetProductSource(SourceIds)
    \/ DoInitDb

SpecRestart == Init /\ [][NextRestart]_vars

----------------------------------------------------------------------------
(* Concurrent connections.  Each of two connections runs one record_order, *)
(* statement by statement, under the locks SQLite takes on the database    *)
(* file (rollback journal, deferred BEGIN): the first SELECT takes the     *)
(* SHARED lock, the first UPDATE the RESERVED lock, which one connection   *)
(* at a time can hold, COMMIT needs every other SHARED lock gone.  What a  *)
(* connection has written stays in txn[t].work until it commits.           *)
(***************************************************************************)

\* orders of connection t, which signs them as user t
ConcRequests(t) ==
    { [Req(p, q, FALSE, None, 0, NoStr, NoStr) EXCEPT !.created_by = t] :
        p \in ProductIds \cup {GhostProduct}, q \in {0, Unit, 2 * Unit} }

\* the errors record_order raises before its first write (db.py 576-661)
ReadErrors == {"ProductNotFound", "InvalidOrderDate", "FutureOrderDate",
               "TypeError", "InsufficientStock"}

Finish(t, err) ==
    /\ txn' = [txn EXCEPT ![t].pc = "done", ![t].err = err]
    /\ lockShared' = lockShared \ {t}
    /\ lockReserved' = lockReserved \ {t}

\* db.py 568-575: the quantity check, connect and BEGIN
Begin(t) ==
    /\ txn[t].pc = "idle"
    /\ \E req \in ConcRequests(t) :
          txn' = [txn EXCEPT ![t].req = req,
                             ![t].pc = IF req.quantity <= 0 THEN "done" ELSE "begun",
                             ![t].err = IF req.quantity <= 0 THEN "InvalidQuantity"
                                        ELSE "none"]
    /\ UNCHANGED <<tables, now, last, lockShared, lockReserved, seen>>

\* Read that takes no lock on what it reads
ReadNoLock(t) ==
    /\ txn[t].pc = "begun"
    /\ LET r == RecordOrderTxn(DB, txn[t].req, now)
       IN IF r.err \in ReadErrors
          THEN Finish(t, r.err)
          ELSE /\ txn' = [txn EXCEPT ![t].pc = "read", ![t].snap = DB]
               /\ UNCHANGED <<lockShared, lockReserved>>
    /\ UNCHANGED <<tables, now, last, seen>>

\* db.py 576-661: the SELECTs of price, mapping and stock with their checks,
\* under the SHARED lock the first of them takes
Read(t) ==
    /\ txn[t].pc = "begun"
    /\ LET r == RecordOrderTxn(DB, txn[t].req, now)
       IN IF r.err \in ReadErrors
          THEN Finish(t, r.err)
          ELSE /\ txn' = [txn EXCEPT ![t].pc = "read", ![t].snap = DB]
               /\ lockShared' = lockShared \cup {t}
               /\ UNCHANGED lockReserved
    /\ UNCHANGED <<tables, now, last, seen>>

\* db.py 652-666: the UPDATE and the movement of step 4.  The UPDATE asks for
\* the RESERVED lock; held by the other connection, the statement raises
\* "database is locked" and the handler rolls back.
Write1(t) ==
    /\ txn[t].pc = "read"
    /\ IF lockReserved \ {t} # {}
       THEN Finish(t, "Locked")
       ELSE /\ lockReserved' = {t}
            /\ txn' = [txn EXCEPT ![t].pc = "wrote",
                         ![t].work = DrawStock(txn[t].snap, txn[t].req,
                             ResolveStockPool(txn[t].snap, txn[t].req.product_id),
                             now).db]
            /\ UNCHANGED lockShared
    /\ UNCHANGED <<tables, now, last, seen>>

\* db.py 668-753: the container step and the INSERT of the sales row
Write2(t) ==
    /\ txn[t].pc = "wrote"
    /\ LET r == RecordOrderTxn(txn[t].snap, txn[t].req, now)
       IN IF r.err # "none"
          THEN Finish(t, r.err)
          ELSE /\ txn' = [txn EXCEPT ![t].pc = "inserted", ![t].work = r.db]
               /\ UNCHANGED <<lockShared, lockReserved>>
    /\ UNCHANGED <<tables, now, last, seen>>

\* db.py 755: conn.commit() once no other connection holds the SHARED lock
CommitTxn(t) ==
    /\ txn[t].pc = "inserted"
    /\ lockShared \ {t} = {}
    /\ SetDB(Commit(DB, txn[t].work))
    /\ txn' = [txn EXCEPT ![t].pc = "committed", ![t].committed = TRUE]
    /\ lockShared' = lockShared \ {t}
    /\ lockReserved' = lockReserved \ {t}
    /\ UNCHANGED <<now, last, seen>>

\* db.py 755, 771-779: conn.commit() gives up waiting for a reader
\* ("database is locked") and the handler rolls back
CommitTimeout(t) ==
    /\ txn[t].pc = "inserted"
    /\ lockShared \ {t} # {}
    /\ Finish(t, "Locked")
    /\ UNCHANGED <<tables, now, last, seen>>

\* db.py 756-779: the committed row is read back joined with its product;
\* dict(None) raises when the product is gone, and the call ends in the
\* exception handler
ReturnSale(t) ==
    /\ txn[t].pc = "committed"
    /\ Finish(t, IF txn[t].req.product_id \in DOMAIN products THEN "none"
                 ELSE "TypeError")
    /\ UNCHANGED <<tables, now, last, seen>>

\* list_sources, list_inventory, list_movements, list_orders (db.py 304-310,
\* 427-435, 811-859) on a third connection, with no commit between the four:
\* what is committed; list_inventory joins the products, so it shows the
\* rows of the products there are
Observe ==
    /\ seen' = [sources |-> sources,
                inventory |-> [p \in DOMAIN inventory \cap DOMAIN products |->
                                 inventory[p]],
                movements |-> movements, sales |-> sales]
    /\ UNCHANGED <<tables, now, last, txn, lockShared, lockReserved>>

\* delete_product (db.py 926-933) on a third connection, between the
\* transactions of the others
ConcDeleteProduct ==
    /\ lockShared = {} /\ lockReserved = {}
    /\ \E p \in DOMAIN products :
          products' = Drop(products, p)
    /\ UNCHANGED <<sources, product_sources, inventory, movements, sales,
                   price_history, now, last, conc>>

NextConc ==
    \/ \E t \in Txns : Begin(t)
    \/ \E t \in Txns : Read(t)
    \/ \E t \in Txns : Write1(t)
    \/ \E t \in Txns : Write2(t)
    \/ \E t \in Txns : CommitTxn(t)
    \/ \E t \in Txns : CommitTimeout(t)
    \/ \E t \in Txns : ReturnSale(t)
    \/ Observe
    \/ ConcDeleteProduct

SpecConc == Init /\ [][NextConc]_vars

\* adjust_source_quantity and adjust_inventory on a connection of their own.
\* The SELECT runs outside any transaction and its SHARED lock is gone once
\* the row is fetched; the UPDATE (or INSERT) opens the transaction that the
\* commit ends.
AdjustCalls ==
    { [op |-> "adjust_source_quantity", id |-> 1, delta |-> d] :
        d \in {-SeedFactor * Unit, SeedFactor * Unit} }
    \cup { [op |-> "adjust_inventory", id |-> 2, delta |-> d] : d \in {-Unit, Unit} }

IsAdjust(t) == "op" \in DOMAIN txn[t].req

\* db.py 372-381, 482-500: the SELECT of the current quantity and the check
\* of the new one, which the call keeps for its write
AdjRead(t) ==
    /\ txn[t].pc = "idle"
    /\ \E c \in AdjustCalls :
          LET r == IF c.op = "adjust_inventory"
                   THEN AdjustInventory(inventory, c.id, c.delta)
                   ELSE AdjustSourceQuantity(sources, c.id, c.delta)
          IN txn' = [txn EXCEPT ![t].req = c,
                                ![t].pc = IF r.err = "none" THEN "adj_read" ELSE "done",
                                ![t].err = r.err,
                                ![t].snap = r.new_q]
    /\ UNCHANGED <<tables, now, last, lockShared, lockReserved, seen>>

\* db.py 382-389, 494-507: the write of the quantity computed from the value
\* read, and the commit, once no other connection holds a lock
AdjWrite(t) ==
    /\ txn[t].pc = "adj_read"
    /\ lockReserved = {} /\ lockShared = {}
    /\ IF txn[t].req.op = "adjust_inventory"
       THEN /\ inventory' = Put(inventory, txn[t].req.id, txn[t].snap)
            /\ UNCHANGED sources
       ELSE /\ sources' = Put(sources, txn[t].req.id, txn[t].snap)
            /\ UNCHANGED inventory
    /\ txn' = [txn EXCEPT ![t].pc = "done", ![t].committed = TRUE]
    /\ UNCHANGED <<products, product_sources, movements, sales, price_history,
                   now, last, lockShared, lockReserved, seen>>

\* the write or the commit gives up waiting for the lock of another connection
AdjTimeout(t) ==
    /\ txn[t].pc = "adj_read"
    /\ lockReserved # {} \/ lockShared # {}
    /\ txn' = [txn EXCEPT ![t].pc = "done", ![t].err = "Locked"]
    /\ UNCHANGED <<tables, now, last, lockShared, lockReserved, seen>>

NextAdjConc ==
    \/ \E t \in Txns : Begin(t)
    \/ \E t \in Txns : Read(t)
    \/ \E t \in Txns : Write1(t)
    \/ \E t \in Txns : Write2(t)
    \/ \E t \in Txns : CommitTxn(t)
    \/ \E t \in Txns : CommitTimeout(t)
    \/ \E t \in Txns : ReturnSale(t)
    \/ \E t \in Txns : AdjRead(t)
    \/ \E t \in Txns : AdjWrite(t)
    \/ \E t \in Txns : AdjTimeout(t)

SpecAdjConc == Init /\ [][NextAdjConc]_vars

----------------------------------------------------------------------------
(* Properties *)

\* every action leaves its name in last, so a step that is not a stuttering
\* step is a call of record_order exactly when last' says so
IsOrderStep == last'.op = "record_order"
Ordered == last.op = "record_order" /\ last.err = "none"
LastRow(rows) == rows[Len(rows)]
NoContainer(req) == ~req.use_bottle /\ ~req.bottles_used.some
NoDates(req) == req.client_timestamp = NoStr /\ req.order_date = NoStr

\* C1: a record_order call that fails, for whatever reason and at whatever
\* step, leaves sources, inventory, movements and sales (and every other
\* table) exactly as they were before the call.
C1_FailedOrderLeavesStore ==
    [][(IsOrderStep /\ last'.err # "none") => UNCHANGED tables]_vars

\* a call failed in the container step, after the stock of step 4 was drawn
C1_Witness ==
    /\ last.op = "record_order"
    /\ last.err = "InsufficientBottleStock"
    /\ RecordOrderTxn(DB, last.req, now).db.movements # movements

\* C2: after any sequence of record_order, adjust_inventory and
\* adjust_source_quantity calls, under any mapping factor, every source
\* quantity and every inventory quantity is >= 0.
C2_NonNegative ==
    /\ \A s \in DOMAIN sources : sources[s] >= 0
    /\ \A p \in DOMAIN inventory : inventory[p] >= 0

\* a call has just been refused because it would have left a negative
\* quantity, under a mapping whose factor is not positive
C2_Witness ==
    /\ last.err = "InsufficientStock"
    /\ last.op \in {"adjust_inventory", "adjust_source_quantity"}
    /\ 1 \in DOMAIN product_sources /\ product_sources[1].factor <= 0
    /\ Len(sales) > 0

\* C3 as claimed: every committing order appends its sales row together with
\* exactly one 'order:<product_id>' movement, the pool that movement names
\* exists and its quantity is lowered by the movement's magnitude; no
\* 'order:' movement appears without a sales row.
C3_SaleMatchesMovement ==
    [][/\ (last'.op = "record_order" /\ last'.err = "none") =>
            /\ Len(sales') = Len(sales) + 1
            /\ Len(movements') > Len(movements)
            /\ LET m == movements'[Len(movements) + 1]
                   mag == IF m.delta < 0 THEN -m.delta ELSE m.delta
                   pool == IF m.kind = "source" THEN sources ELSE inventory
                   pool2 == IF m.kind = "source" THEN sources' ELSE inventory'
               IN /\ m.reason = [tag |-> "order", product_id |-> last'.req.product_id]
                  /\ \A i \in (Len(movements) + 2)..Len(movements') :
                         movements'[i].reason.tag # "order"
                  /\ m.ref_id \in DOMAIN pool2
                  /\ pool2[m.ref_id] = QtyOrZero(pool, m.ref_id) - mag
       /\ Len(sales') = Len(sales) =>
            \A i \in (Len(movements) + 1)..Len(movements') :
                movements'[i].reason.tag # "order"
      ]_vars

\* C4: a successful order without container of a product mapped to an
\* existing source s with factor f lowers s by quantity * f, appends exactly
\* one 'source' movement naming s with delta -(quantity * f), and inserts
\* exactly one sales row holding the product's current price and
\* total = unit_price * quantity.
C4_MappedOrderEffect ==
    [][(/\ IsOrderStep /\ last'.err = "none"
        /\ NoContainer(last'.req)
        /\ last'.req.product_id \in DOMAIN product_sources
        /\ product_sources[last'.req.product_id].source_id \in DOMAIN sources) =>
          LET req == last'.req
              s == product_sources[req.product_id].source_id
              f == product_sources[req.product_id].factor
              row == LastRow(sales')
          IN /\ sources' = [sources EXCEPT ![s] = @ - req.quantity * f]
             /\ Len(movements') = Len(movements) + 1
             /\ SubSeq(movements', 1, Len(movements)) = movements
             /\ LastRow(movements').kind = "source"
             /\ LastRow(movements').ref_id = s
             /\ LastRow(movements').delta = -(req.quantity * f)
             /\ Len(sales') = Len(sales) + 1
             /\ SubSeq(sales', 1, Len(sales)) = sales
             /\ row.product_id = req.product_id
             /\ row.unit_price = products[req.product_id].unit_price
             /\ row.total = products[req.product_id].unit_price * req.quantity
      ]_vars

\* the scenario of the specification: price 40, factor 5, two units ordered
\* (the model's quantities are the next smaller ones: one unit, total 40,
\* tank lowered by 5)
C4_Witness ==
    /\ Ordered
    /\ last.req.product_id \in DOMAIN product_sources
    /\ product_sources[last.req.product_id] = [source_id |-> 1, factor |-> SeedFactor]
    /\ last.req.quantity = Unit
    /\ LastRow(sales).total = SeedPrice * Unit
    /\ sources[1] = InitTank - SeedFactor * Unit

\* C5: an order (valid quantity, no dates, no container) of an existing mapped
\* product succeeds exactly when the source's quantity, 0 for a missing row,
\* minus quantity * factor is >= 0; otherwise it fails with insufficient
\* stock, the source keeps its quantity and no sales row is created.
C5_MappedOrderIffEnough ==
    [][(/\ IsOrderStep
        /\ last'.req.quantity > 0
        /\ last'.req.product_id \in DOMAIN products
        /\ last'.req.product_id \in DOMAIN product_sources
        /\ NoContainer(last'.req) /\ NoDates(last'.req)) =>
          LET req == last'.req
              m == product_sources[req.product_id]
              left == QtyOrZero(sources, m.source_id) - req.quantity * m.factor
          IN /\ (last'.err = "none") <=> (left >= 0)
             /\ left < 0 => /\ last'.err = "InsufficientStock"
                            /\ sources' = sources
                            /\ sales' = sales
      ]_vars

\* an order failed for want of stock in a source that is not empty
C5_Witness ==
    /\ last.op = "record_order" /\ last.err = "InsufficientStock"
    /\ last.req.product_id \in DOMAIN product_sources
    /\ product_sources[last.req.product_id].source_id \in DOMAIN sources
    /\ sources[product_sources[last.req.product_id].source_id] > 0

\* C6: an order of quantity q of a product without mapping succeeds exactly
\* when the product's inventory holds >= q; on success the inventory drops by
\* q and exactly one 'inventory' movement naming the product with delta -q is
\* appended.
C6_UnmappedOrder ==
    [][(/\ IsOrderStep
        /\ last'.req.quantity > 0
        /\ last'.req.product_id \in DOMAIN products
        /\ last'.req.product_id \notin DOMAIN product_sources
        /\ NoContainer(last'.req) /\ NoDates(last'.req)) =>
          LET req == last'.req
              p == req.product_id
          IN /\ (last'.err = "none") <=> (QtyOrZero(inventory, p) >= req.quantity)
             /\ last'.err = "none" =>
                  /\ p \in DOMAIN inventory
                  /\ inventory' = [inventory EXCEPT ![p] = @ - req.quantity]
                  /\ movements' = Append(movements,
                        Movement("inventory", p, -req.quantity, "order", p,
                                 now, req.created_by))
      ]_vars

\* an order took exactly what the inventory held
C6_Witness ==
    /\ Ordered
    /\ last.req.product_id \notin DOMAIN product_sources
    /\ inventory[last.req.product_id] = 0

\* the clock value a client timestamp shows, in UTC
ClientClock(cts) == ParseClientTimestamp(cts).v.t

\* C9: when the client_timestamp parses, the order is decided by it alone:
\* the call ends as the same call without order_date ends, and the stored
\* timestamp is the client's clock value in whole seconds.
C9_ClientTimestampWins ==
    [][(IsOrderStep /\ ParseClientTimestamp(last'.req.client_timestamp).some) =>
          LET req == last'.req
              alone == RecordOrder(DB, [req EXCEPT !.order_date = NoStr], now)
          IN /\ last'.err = alone.err
             /\ DB' = alone.db
             /\ last'.err = "none" =>
                  LastRow(sales').timestamp = TruncSeconds(ClientClock(req.client_timestamp))
             /\ last'.err \notin {"InvalidOrderDate", "TypeError"}
      ]_vars

\* an order went through on its client timestamp beside an unparsable order_date
C9_Witness ==
    /\ Ordered
    /\ ParseClientTimestamp(last.req.client_timestamp).some
    /\ last.req.order_date = BadStr

\* the instant a request's date inputs resolve to (client_timestamp, else
\* order_date), None when the server time is used
ResolvedInstant(req, clock) ==
    LET c == ParseClientTimestamp(req.client_timestamp)
    IN IF c.some THEN Some(c.v.t)
       ELSE LET o == ParseOrderDate(req.order_date, clock)
            IN IF o.dt.some THEN Some(o.dt.v.t) ELSE None

\* C10 as claimed: an order of an existing product and positive quantity whose
\* resolved timestamp is later than the server time fails with
\* FutureOrderDate and persists nothing; one not later is not rejected as
\* future.
C10_FutureRejected ==
    [][(/\ IsOrderStep
        /\ last'.req.quantity > 0
        /\ last'.req.product_id \in DOMAIN products
        /\ ResolvedInstant(last'.req, now).some) =>
          IF ResolvedInstant(last'.req, now).v > now
          THEN last'.err = "FutureOrderDate" /\ UNCHANGED tables
          ELSE last'.err # "FutureOrderDate"
      ]_vars

\* what the committed orders of the two connections drew from source s and
\* from the inventory of product p, by the seeded mapping
RECURSIVE SumOver(_, _)
SumOver(S, f) == IF S = {} THEN 0
                 ELSE LET x == CHOOSE y \in S : TRUE
                      IN f[x] + SumOver(S \ {x}, f)

CommittedTxns == {t \in Txns : txn[t].committed}
DrawnFromTank ==
    SumOver(CommittedTxns,
            [t \in Txns |-> IF txn[t].req.product_id = 1
                            THEN txn[t].req.quantity * SeedFactor ELSE 0])
DrawnFromInventory(p) ==
    SumOver(CommittedTxns,
            [t \in Txns |-> IF txn[t].req.product_id = p /\ p # 1
                            THEN txn[t].req.quantity ELSE 0])

\* C7: whatever the interleaving of two record_order transactions on
\* separate connections, the quantity of the source (of the inventory row)
\* they draw from is the initial one minus the draws of exactly the orders
\* that committed, and never negative: no two of them commit on the same
\* quantity read.
C7_NoLostDraw ==
    /\ sources[1] = InitTank - DrawnFromTank
    /\ inventory[2] = InitBottles - DrawnFromInventory(2)
    /\ sources[1] >= 0 /\ inventory[2] >= 0
    /\ \A t, u \in CommittedTxns :
          (t # u /\ txn[t].req.product_id = txn[u].req.product_id) =>
              QtyOrZero(txn[t].snap.sources, 1) # QtyOrZero(txn[u].snap.sources, 1)
              \/ QtyOrZero(txn[t].snap.inventory, 2) # QtyOrZero(txn[u].snap.inventory, 2)

\* both connections read the same tank quantity, one committed, the other
\* was refused
C7_Witness ==
    /\ txn[1].committed /\ txn[2].pc = "done" /\ txn[2].err = "Locked"
    /\ txn[1].req.product_id = 1 /\ txn[2].req.product_id = 1
    /\ txn[1].snap.sources = txn[2].snap.sources

\* the orders a reader sees, by the user that signed them
SeenOrdersOf(t) == {i \in 1..Len(seen.sales) : seen.sales[i].created_by = t}
SeenOrderMovements ==
    {i \in 1..Len(seen.movements) : seen.movements[i].reason.tag = "order"}

\* C8 as claimed: what a reader on another connection sees holds, for every
\* order, the stock decrement, the movement and the sales row together or
\* none of them, and nothing of an order whose call failed.
C8_ReaderSeesWholeOrders ==
    /\ Cardinality(SeenOrderMovements) = Len(seen.sales)
    /\ seen.sources[1] = InitTank -
          SumOver(1..Len(seen.sales),
                  [i \in 1..Len(seen.sales) |->
                      IF seen.sales[i].product_id = 1
                      THEN seen.sales[i].quantity * SeedFactor ELSE 0])
    /\ 2 \in DOMAIN seen.inventory =>
       seen.inventory[2] = InitBottles -
          SumOver(1..Len(seen.sales),
                  [i \in 1..Len(seen.sales) |->
                      IF seen.sales[i].product_id = 2
                      THEN seen.sales[i].quantity ELSE 0])
    /\ \A t \in Txns :
          (txn[t].pc = "done" /\ txn[t].err # "none") => SeenOrdersOf(t) = {}

\* the part of C8 about orders that are under way or went through
C8_SeenTogether ==
    /\ Cardinality(SeenOrderMovements) = Len(seen.sales)
    /\ \A t \in Txns : ~txn[t].committed => SeenOrdersOf(t) = {}

\* C11: a record_order call with quantity <= 0 fails with InvalidQuantity,
\* whatever else is wrong with it (unknown product, failing dates, a mapping
\* that leaves too little stock), and leaves every table as it was.
C11_InvalidQuantityFirst ==
    [][(IsOrderStep /\ last'.req.quantity <= 0) =>
          /\ last'.err = "InvalidQuantity"
          /\ UNCHANGED tables]_vars

\* an order of no quantity, of a product there is not, with a date that fails
C11_Witness ==
    /\ last.op = "record_order" /\ last.err = "InvalidQuantity"
    /\ last.req.quantity <= 0
    /\ last.req.product_id = GhostProduct
    /\ last.req.order_date = BadStr

\* C12: whatever operation runs, the sales rows there are stay as they are:
\* none is changed or removed, so each keeps the unit_price and total it was
\* written with.
C12_SalesRowsKept ==
    [][/\ Len(sales') >= Len(sales)
       /\ SubSeq(sales', 1, Len(sales)) = sales]_vars

\* a sales row holds a price the product no longer has
C12_Witness ==
    /\ Len(sales) > 0
    /\ sales[1].product_id \in DOMAIN products
    /\ sales[1].unit_price # products[sales[1].product_id].unit_price
    /\ sales[1].total = sales[1].unit_price * sales[1].quantity

\* C13: adjust_inventory(p, d) and adjust_source_quantity(s, d) take a
\* missing record as quantity 0.  With current + d >= 0 they store and return
\* current + d, creating the record if it was missing; with current + d < 0
\* they raise insufficient stock and leave the table as it was, creating
\* nothing.
C13_AdjustFromZero ==
    [][/\ last'.op = "adjust_inventory" =>
            LET new_q == QtyOrZero(inventory, last'.id) + last'.delta
            IN IF new_q >= 0
               THEN /\ last'.err = "none" /\ last'.ret = new_q
                    /\ inventory' = Put(inventory, last'.id, new_q)
               ELSE last'.err = "InsufficientStock" /\ inventory' = inventory
       /\ last'.op = "adjust_source_quantity" =>
            LET new_q == QtyOrZero(sources, last'.id) + last'.delta
            IN IF new_q >= 0
               THEN /\ last'.err = "none" /\ last'.ret = new_q
                    /\ sources' = Put(sources, last'.id, new_q)
               ELSE last'.err = "InsufficientStock" /\ sources' = sources
      ]_vars

\* a negative adjustment of a record there is not was refused and created
\* nothing, after a positive one had created a record
C13_Witness ==
    /\ last.op \in {"adjust_inventory", "adjust_source_quantity"}
    /\ last.err = "InsufficientStock"
    /\ last.id \notin (IF last.op = "adjust_inventory" THEN DOMAIN inventory
                       ELSE DOMAIN sources)
    /\ 2 \in DOMAIN sources \/ 1 \in DOMAIN inventory

\* what the committed call of connection t added to the source (product
\* inventory) id: the delta of an adjustment, the draw of an order
AddedToSource(t, id) ==
    IF ~txn[t].committed THEN 0
    ELSE IF IsAdjust(t)
         THEN IF txn[t].req.op = "adjust_source_quantity" /\ txn[t].req.id = id
              THEN txn[t].req.delta ELSE 0
         ELSE IF txn[t].req.product_id = 1 /\ id = 1
              THEN -(txn[t].req.quantity * SeedFactor) ELSE 0
AddedToInventory(t, id) ==
    IF ~txn[t].committed THEN 0
    ELSE IF IsAdjust(t)
         THEN IF txn[t].req.op = "adjust_inventory" /\ txn[t].req.id = id
              THEN txn[t].req.delta ELSE 0
         ELSE IF txn[t].req.product_id = id /\ id # 1
              THEN -txn[t].req.quantity ELSE 0

\* C14 as claimed: whatever the interleaving of adjust calls and orders on
\* two connections, the quantity of a record is the initial one plus the
\* deltas of the calls that went through.
C14_NoLostAdjustment ==
    /\ sources[1] = InitTank + SumOver(Txns, [t \in Txns |-> AddedToSource(t, 1)])
    /\ inventory[2] = InitBottles + SumOver(Txns, [t \in Txns |-> AddedToInventory(t, 2)])

\* the movements a step appends that name the pool (kind, ref) with delta
NewMovements(kind, ref, delta) ==
    {i \in (Len(movements) + 1)..Len(movements') :
        /\ movements'[i].kind = kind /\ movements'[i].ref_id = ref
        /\ movements'[i].delta = delta}

\* C15 as claimed: a call of record_order, adjust_inventory,
\* adjust_source_quantity, set_inventory or update_source that changes the
\* quantity of a source or of an inventory record appends, in the same
\* commit, a movement naming that pool whose delta is the change.
C15_EveryChangeHasMovement ==
    [][(last'.op \in {"record_order", "adjust_inventory", "adjust_source_quantity",
                      "set_inventory", "update_source"}) =>
          /\ \A s \in DOMAIN sources \cup DOMAIN sources' :
                QtyOrZero(sources', s) # QtyOrZero(sources, s) =>
                    NewMovements("source", s,
                        QtyOrZero(sources', s) - QtyOrZero(sources, s)) # {}
          /\ \A p \in DOMAIN inventory \cup DOMAIN inventory' :
                QtyOrZero(inventory', p) # QtyOrZero(inventory, p) =>
                    NewMovements("inventory", p,
                        QtyOrZero(inventory', p) - QtyOrZero(inventory, p)) # {}
      ]_vars

\* C16: no step changes or removes a movement row (the log is a prefix of
\* the log after the step, so each row keeps its id), and list_movements
\* returns matching rows only, in strictly decreasing order of insertion,
\* newest first: no matching row it leaves out is newer than one it returns,
\* and it returns at least `limit` rows when that many match.
C16_MovementLogGrows ==
    [][/\ Len(movements') >= Len(movements)
       /\ SubSeq(movements', 1, Len(movements)) = movements
       /\ last'.op = "list_movements" =>
            LET r == seen'.rows
                matches(i) ==
                    /\ seen'.kind.some => movements[i].kind = seen'.kind.v
                    /\ seen'.ref_id.some => movements[i].ref_id = seen'.ref_id.v
                all == {i \in 1..Len(movements) : matches(i)}
                got == {r[j].id : j \in 1..Len(r)}
            IN /\ got \subseteq all
               /\ \A j \in 1..Len(r) : r[j].row = movements[r[j].id]
               /\ \A j, k \in 1..Len(r) : j < k => r[j].id > r[k].id
               /\ \A i \in all \ got : \A g \in got : i < g
               /\ Cardinality(all) >= seen'.limit => Len(r) >= seen'.limit
               /\ Cardinality(all) < seen'.limit => got = all
      ]_vars

\* a filtered call returned its limit of rows and left an older match out
C16_Witness ==
    /\ last.op = "list_movements"
    /\ seen.limit = 1 /\ seen.kind = Some("source")
    /\ Len(seen.rows) = 1
    /\ Len(movements) > seen.rows[1].id
    /\ Cardinality(MovementFilter(movements, seen.kind, seen.ref_id)) > 1

\* C17 as claimed: every sales row holds a timestamp of whole seconds,
\* whichever input the timestamp was resolved from.
C17_WholeSeconds ==
    \A i \in 1..Len(sales) : sales[i].timestamp % TicksPerSec = 0

DateErrors == {"InvalidOrderDate", "FutureOrderDate", "TypeError"}
Unparsable(s) == s.k # "none" /\ ~FromIsoFormat(s).some /\ ~StrpDate(s).some
NoClientTime(req) == ~ParseClientTimestamp(req.client_timestamp).some
ValidOrder(req) == req.quantity > 0 /\ req.product_id \in DOMAIN products

\* C18 as claimed: with a client_timestamp that is absent or does not parse
\* and an order_date that is absent or does not parse, the call does not fail
\* on date grounds and a recorded order holds the server time.
C18_NeitherParsesServerTime ==
    [][(/\ IsOrderStep /\ ValidOrder(last'.req) /\ NoClientTime(last'.req)
        /\ last'.req.order_date = NoStr \/ Unparsable(last'.req.order_date)) =>
          /\ last'.err \notin DateErrors
          /\ last'.err = "none" => LastRow(sales').timestamp = now
      ]_vars

\* C18 amended: with a client_timestamp that is absent or does not parse and
\* no order_date, the call does not fail on date grounds and a recorded
\* order holds the server time.
C18_NoDateServerTime ==
    [][(/\ IsOrderStep /\ ValidOrder(last'.req) /\ NoClientTime(last'.req)
        /\ last'.req.order_date = NoStr) =>
          /\ last'.err \notin DateErrors
          /\ last'.err = "none" => LastRow(sales').timestamp = now
      ]_vars

\* an order went through on the server time beside a client_timestamp that
\* does not parse
C18_Witness ==
    /\ Ordered
    /\ last.req.client_timestamp = BadStr /\ last.req.order_date = NoStr
    /\ LastRow(sales).timestamp = now

\* C19 as claimed: when every date string given (client_timestamp,
\* order_date) is unparsable, the call fails with InvalidOrderDate and
\* persists nothing.
C19_AllUnparsableRejected ==
    [][(/\ IsOrderStep /\ ValidOrder(last'.req)
        /\ Unparsable(last'.req.client_timestamp) \/ Unparsable(last'.req.order_date)
        /\ last'.req.client_timestamp = NoStr \/ Unparsable(last'.req.client_timestamp)
        /\ last'.req.order_date = NoStr \/ Unparsable(last'.req.order_date)) =>
          /\ last'.err = "InvalidOrderDate"
          /\ UNCHANGED tables
      ]_vars

\* C19 amended: when the order_date given is unparsable and the
\* client_timestamp is absent or unparsable, the call fails with
\* InvalidOrderDate and persists nothing.
C19_UnparsableOrderDateRejected ==
    [][(/\ IsOrderStep /\ ValidOrder(last'.req)
        /\ Unparsable(last'.req.order_date)
        /\ last'.req.client_timestamp = NoStr \/ Unparsable(last'.req.client_timestamp)) =>
          /\ last'.err = "InvalidOrderDate"
          /\ UNCHANGED tables
      ]_vars

\* a call with two unparsable strings was refused
C19_Witness ==
    /\ last.op = "record_order" /\ last.err = "InvalidOrderDate"
    /\ last.req.client_timestamp = BadStr /\ last.req.order_date = BadStr

\* C20: the total of every recorded order is unit_price * quantity, plus
\* bottle_price * count exactly when use_bottle is set and bottle_price > 0;
\* count is bottles_used when given, else the quantity when it is whole,
\* else the next whole number above it.  (Money is counted in 1/Unit.)
C20_TotalWithSurcharge ==
    [][(IsOrderStep /\ last'.err = "none") =>
          LET req == last'.req
              q == req.quantity
              count == IF req.bottles_used.some THEN req.bottles_used.v
                       ELSE IF q % Unit = 0 THEN q \div Unit
                       ELSE (q \div Unit) + 1
              surcharge == IF req.use_bottle /\ req.bottle_price > 0
                           THEN req.bottle_price * count * Unit ELSE 0
          IN LastRow(sales').total =
                 products[req.product_id].unit_price * q + surcharge
      ]_vars

\* an order of a fractional quantity paid the container of the next whole
\* number
C20_Witness ==
    /\ Ordered
    /\ last.req.use_bottle /\ last.req.bottle_price > 0
    /\ ~last.req.bottles_used.some
    /\ last.req.quantity % Unit # 0
    /\ LastRow(sales).total >
          LastRow(sales).unit_price * last.req.quantity
          + last.req.bottle_price * last.req.quantity

----------------------------------------------------------------------------
\* the errors record_order raises before it reaches the container step
BeforeContainerStep ==
    {"InvalidQuantity", "ProductNotFound", "InsufficientStock",
     "NegativeBottles"} \cup DateErrors

\* the container count of a request: the explicit bottles_used, else the
\* quantity rounded up when use_bottle is set, else none
ContainerCount(req) ==
    IF req.bottles_used.some THEN req.bottles_used.v
    ELSE IF req.use_bottle
         THEN (IF req.quantity % Unit = 0 THEN req.quantity \div Unit
               ELSE (req.quantity \div Unit) + 1)
    ELSE 0

\* what step 4 of the same order took from the inventory row of product bp
OwnDraw(req, bp) ==
    IF req.product_id \notin DOMAIN product_sources /\ req.product_id = bp
    THEN req.quantity ELSE 0

----------------------------------------------------------------------------
\* C22: in every state the program reaches by any of its operations, the
\* stock and source edits of the /api/stock and /api/sources handlers
\* included, every source quantity and every inventory quantity is >= 0.
C22_StoredQuantitiesNonNegative ==
    \A kind \in {"source", "inventory"} :
        LET rows == IF kind = "source" THEN sources ELSE inventory
        IN \A k \in DOMAIN rows : ~(rows[k] < 0)

----------------------------------------------------------------------------
----------------------------------------------------------------------------
\* C24: a successful order never raises the quantity of a source or of an
\* inventory row, whatever factor the product's mapping holds, zero and
\* negative factors included.
C24_OrderNeverRaisesStock ==
    [][(IsOrderStep /\ last'.err = "none") =>
          /\ \A s \in DOMAIN sources' : sources'[s] <= QtyOrZero(sources, s)
          /\ \A p \in DOMAIN inventory' : inventory'[p] <= QtyOrZero(inventory, p)
      ]_vars

----------------------------------------------------------------------------
\* C25: after any sequence of add_product, delete_product, set_inventory,
\* set_product_source and record_order calls, the product add_product has
\* just returned has no inventory row, no mapping and no sales row naming
\* its id.
C25_FreshProductUnreferenced ==
    (last.op = "add_product") =>
        /\ last.id \notin DOMAIN inventory
        /\ last.id \notin DOMAIN product_sources
        /\ \A i \in 1..Len(sales) : sales[i].product_id # last.id

----------------------------------------------------------------------------
\* C26: the bottles_used a sales row stores is the number of containers the
\* same transaction took from a container product's inventory: a stored
\* n > 0 comes with an 'order_bottle' movement of delta -n appended in the
\* same commit, a stored 0 with none, also when no product carries a
\* container name.
C26_StoredBottlesWereDeducted ==
    [][(IsOrderStep /\ last'.err = "none") =>
          LET n == LastRow(sales').bottles_used
              taken == { i \in (Len(movements) + 1)..Len(movements') :
                           movements'[i].reason.tag = "order_bottle" }
          IN IF n > 0
             THEN \E i \in taken : /\ taken = {i}
                                   /\ movements'[i].kind = "inventory"
                                   /\ movements'[i].delta = -(n * Unit)
             ELSE taken = {}
      ]_vars

\* C27: every sales row satisfies
\* total = unit_price * quantity + bottle_price * bottles_used on its own
\* stored fields, whatever use_bottle, bottles_used and bottle_price the
\* request held and whether or not a container product exists.
C27_TotalFromStoredFields ==
    \A i \in 1..Len(sales) :
        sales[i].total = sales[i].unit_price * sales[i].quantity
                         + sales[i].bottle_price * sales[i].bottles_used * Unit

----------------------------------------------------------------------------
\* the sum of the deltas of the movements a step appends for (kind, ref)
AppendedDelta(kind, ref) ==
    SumOver({ i \in (Len(movements) + 1)..Len(movements') :
                movements'[i].kind = kind /\ movements'[i].ref_id = ref },
            [i \in 1..Len(movements') |-> movements'[i].delta])

\* C28: over record_order calls alone, successful or failed, with or without
\* containers, the ordered product being its own container included, every
\* existing source row and inventory row holds its earlier quantity plus the
\* sum of the deltas of the movements appended for its (kind, ref_id).
\* Stated for one call; a sequence adds up call by call.
C28_QuantitiesFollowMovements ==
    [][IsOrderStep =>
          /\ DOMAIN sources' = DOMAIN sources
          /\ \A s \in DOMAIN sources' :
                sources'[s] = sources[s] + AppendedDelta("source", s)
          /\ \A p \in DOMAIN inventory' :
                inventory'[p] = QtyOrZero(inventory, p) + AppendedDelta("inventory", p)
      ]_vars

\* the container product was ordered with containers of its own kind: one
\* row, two movements
C28_Witness ==
    /\ Ordered
    /\ last.req.product_id \notin DOMAIN product_sources
    /\ Len(movements) >= 2
    /\ LET a == movements[Len(movements) - 1]
           b == LastRow(movements)
       IN /\ a.kind = "inventory" /\ a.ref_id = last.req.product_id
          /\ a.reason.tag = "order" /\ a.delta = -last.req.quantity
          /\ b.kind = "inventory" /\ b.ref_id = last.req.product_id
          /\ b.reason.tag = "order_bottle" /\ b.delta < 0
          /\ a.timestamp = now /\ Len(sales) = 1

----------------------------------------------------------------------------
\* C29: init_db run on a store that is already initialised leaves every
\* existing inventory quantity, source quantity and mapping as it was.
C29_RestartKeepsStock ==
    [][(last'.op = "init_db") =>
          /\ \A p \in DOMAIN inventory :
                p \in DOMAIN inventory' /\ inventory'[p] = inventory[p]
          /\ \A s \in DOMAIN sources :
                s \in DOMAIN sources' /\ sources'[s] = sources[s]
          /\ \A p \in DOMAIN product_sources :
                p \in DOMAIN product_sources' /\ product_sources'[p] = product_sources[p]
      ]_vars

----------------------------------------------------------------------------
\* C30: update_product with an id no product has reports not-found and
\* leaves every table, price_history included, as it was; for a product
\* that exists it appends one price_history row whose old_price is the
\* price before the call and whose new_price is the price after it.
C30_UpdateOfMissingProduct ==
    [][(last'.op = "update_product") =>
          IF last'.id \notin DOMAIN products
          THEN last'.err = "NotFound" /\ UNCHANGED tables
          ELSE /\ last'.err = "none"
               /\ Len(price_history') = Len(price_history) + 1
               /\ SubSeq(price_history', 1, Len(price_history)) = price_history
               /\ LastRow(price_history').product_id = last'.id
               /\ LastRow(price_history').old_price = Some(products[last'.id].unit_price)
               /\ LastRow(price_history').new_price = products'[last'.id].unit_price
      ]_vars

====
